---- MODULE Spec2Model ----
(***************************************************************************)
(* Nexus Chat: the envelope protocol of services/cryptoService.ts and the  *)
(* session state machine of components/ChatInterface.tsx and App.          *)
(*                                                                         *)
(* Strings are sequences of UTF-16 code units, buffers are sequences of    *)
(* bytes, base64 text is a sequence of symbols (0..63 the alphabet, 64 the *)
(* padding '=', 65 an ASCII blank, 66 any other character).                *)
(* WebCrypto is idealised: an AES key is its key material (a number), a    *)
(* ciphertext decrypts only under the key and nonce that made it, and a    *)
(* signature verifies only if the key pair's private key produced it over  *)
(* exactly that data (the set `signed` records what has been signed).      *)
(***************************************************************************)
EXTENDS Integers, Sequences, FiniteSets, TLC

\* ------------------------------------------------------------------ bounds
\* how many operations of the user (identities created, peers connected, page
\* reloads, messages sent) a behaviour holds
MaxOps == 5

\* the same, in the behaviours checked for liveness
MaxLiveOps == 3

\* AES-GCM nonce size requested by encryptMessage
IvLen == 12

\* ------------------------------------------------------------- sequences
RECURSIVE SumSeq(_)
SumSeq(s) == IF s = <<>> THEN 0 ELSE Head(s) + SumSeq(Tail(s))

RECURSIVE Flatten(_)
Flatten(ss) == IF ss = <<>> THEN <<>> ELSE Head(ss) \o Flatten(Tail(ss))

Last(s) == s[Len(s)]
Front(s) == SubSeq(s, 1, Len(s) - 1)
Zeros(n) == [i \in 1..n |-> 0]

\* ---------------------------------------------------------- text encoding
\* U+FFFD, what the encoder and the decoder substitute for ill-formed input
Replacement == 65533
\* U+FEFF, the byte order mark
ByteOrderMark == 65279

IsSurrogate(c) == c >= 55296 /\ c <= 57343

\* TextEncoder.encode of one code unit (a surrogate is always unpaired here)
EncodeUnit(c) ==
    LET u == IF IsSurrogate(c) THEN Replacement ELSE c
    IN IF u < 128 THEN <<u>>
       ELSE IF u < 2048 THEN <<192 + (u \div 64), 128 + (u % 64)>>
       ELSE <<224 + (u \div 4096), 128 + ((u \div 64) % 64), 128 + (u % 64)>>

\* new TextEncoder().encode(text)
TextEncode(text) == Flatten([i \in 1..Len(text) |-> EncodeUnit(text[i])])

IsCont(b) == b >= 128 /\ b <= 191

\* UTF-8 decoding with replacement (TextDecoder is not fatal by default)
RECURSIVE Utf8Decode(_)
Utf8Decode(bs) ==
    IF bs = <<>> THEN <<>>
    ELSE LET b == Head(bs) IN
        IF b < 128 THEN <<b>> \o Utf8Decode(Tail(bs))
        ELSE IF b >= 194 /\ b <= 223 /\ Len(bs) >= 2 /\ IsCont(bs[2])
            THEN <<(b - 192) * 64 + (bs[2] - 128)>> \o Utf8Decode(SubSeq(bs, 3, Len(bs)))
        ELSE IF b >= 224 /\ b <= 239 /\ Len(bs) >= 3 /\ IsCont(bs[2]) /\ IsCont(bs[3])
                /\ (b = 224 => bs[2] >= 160) /\ (b = 237 => bs[2] <= 159)
            THEN <<(b - 224) * 4096 + (bs[2] - 128) * 64 + (bs[3] - 128)>>
                    \o Utf8Decode(SubSeq(bs, 4, Len(bs)))
        ELSE <<Replacement>> \o Utf8Decode(Tail(bs))

\* new TextDecoder().decode(buffer): ignoreBOM is false, a leading BOM is dropped
TextDecode(bs) ==
    LET t == Utf8Decode(bs)
    IN IF t # <<>> /\ Head(t) = ByteOrderMark THEN Tail(t) ELSE t

\* String.prototype.trim: WhiteSpace and LineTerminator code units
IsWhiteSpace(c) ==
    c \in {9, 10, 11, 12, 13, 32, 160, 5760, 8232, 8233, 8239, 8287, 12288, ByteOrderMark}
    \/ (c >= 8192 /\ c <= 8202)

RECURSIVE TrimStart(_)
TrimStart(t) == IF t # <<>> /\ IsWhiteSpace(Head(t)) THEN TrimStart(Tail(t)) ELSE t

RECURSIVE TrimEnd(_)
TrimEnd(t) == IF t # <<>> /\ IsWhiteSpace(Last(t)) THEN TrimEnd(Front(t)) ELSE t

Trim(t) == TrimEnd(TrimStart(t))

\* ----------------------------------------------------------------- base64
\* symbols beside the 64 of the alphabet: '=', an ASCII blank, anything else
Pad == 64
Blank == 65
Other == 66

\* window.btoa over the bytes of a buffer
RECURSIVE arrayBufferToBase64(_)
arrayBufferToBase64(bs) ==
    IF bs = <<>> THEN <<>>
    ELSE IF Len(bs) = 1
        THEN <<bs[1] \div 4, (bs[1] % 4) * 16, Pad, Pad>>
    ELSE IF Len(bs) = 2
        THEN <<bs[1] \div 4, (bs[1] % 4) * 16 + (bs[2] \div 16), (bs[2] % 16) * 4, Pad>>
    ELSE <<bs[1] \div 4, (bs[1] % 4) * 16 + (bs[2] \div 16),
           (bs[2] % 16) * 4 + (bs[3] \div 64), bs[3] % 64>>
            \o arrayBufferToBase64(SubSeq(bs, 4, Len(bs)))

RECURSIVE StripBlanks(_)
StripBlanks(s) ==
    IF s = <<>> THEN <<>>
    ELSE IF Head(s) = Blank THEN StripBlanks(Tail(s))
    ELSE <<Head(s)>> \o StripBlanks(Tail(s))

\* a trailing '=' or '==' is removed when the length is a multiple of four
StripPadding(s) ==
    IF Len(s) % 4 = 0 /\ s # <<>> /\ Last(s) = Pad
    THEN IF Last(Front(s)) = Pad THEN Front(Front(s)) ELSE Front(s)
    ELSE s

\* the bytes of 6-bit symbols; bits left over in the last group are discarded
RECURSIVE SextetsToBytes(_)
SextetsToBytes(s) ==
    IF Len(s) < 2 THEN <<>>
    ELSE IF Len(s) = 2 THEN <<s[1] * 4 + (s[2] \div 16)>>
    ELSE IF Len(s) = 3
        THEN <<s[1] * 4 + (s[2] \div 16), (s[2] % 16) * 16 + (s[3] \div 4)>>
    ELSE <<s[1] * 4 + (s[2] \div 16), (s[2] % 16) * 16 + (s[3] \div 4),
           (s[3] % 4) * 64 + s[4]>> \o SextetsToBytes(SubSeq(s, 5, Len(s)))

\* window.atob (forgiving-base64 decode)
Atob(b64) ==
    LET s == StripPadding(StripBlanks(b64))
    IN IF Len(s) % 4 = 1 \/ \E i \in 1..Len(s) : s[i] > 63
       THEN [ok |-> FALSE, bytes |-> <<>>]
       ELSE [ok |-> TRUE, bytes |-> SextetsToBytes(s)]

\* base64ToArrayBuffer: throws what atob throws
base64ToArrayBuffer(b64) == Atob(b64)

\* ------------------------------------------------------------- key formats
\* A JsonWebKey of an RSA key pair n: the private form carries the private
\* exponent d, the public form does not (d = 0).
PublicJwk(n) == [kty |-> "RSA", n |-> n, d |-> 0]
PrivateJwk(n) == [kty |-> "RSA", n |-> n, d |-> n]
NoKey == [type |-> "none", n |-> 0]

\* generateRsaKeyPair: the pair with modulus n
generateRsaKeyPair(n) ==
    [publicKey |-> [type |-> "public", n |-> n], privateKey |-> [type |-> "private", n |-> n]]

\* exportKey('jwk', key)
exportKey(key) == IF key.type = "private" THEN PrivateJwk(key.n) ELSE PublicJwk(key.n)

\* importKey('jwk', jwk, RSA-PSS, ['verify']): a key with a private exponent
\* cannot be imported for verification
importPublicKey(jwk) ==
    IF jwk.kty = "RSA" /\ jwk.n > 0 /\ jwk.d = 0
    THEN [ok |-> TRUE, key |-> [type |-> "public", n |-> jwk.n]]
    ELSE [ok |-> FALSE, key |-> NoKey]

\* importKey('jwk', jwk, RSA-PSS, ['sign']): needs the private exponent
importPrivateKey(jwk) ==
    IF jwk.kty = "RSA" /\ jwk.n > 0 /\ jwk.d = jwk.n
    THEN [ok |-> TRUE, key |-> [type |-> "private", n |-> jwk.n]]
    ELSE [ok |-> FALSE, key |-> NoKey]

\* An AES key is its key material k.
NoAesJwk == [kty |-> "none", k |-> 0]
generateSharedSecret(k) == [type |-> "secret", k |-> k]
exportAesKey(key) == [kty |-> "oct", k |-> key.k]
importAesKey(jwk) ==
    IF jwk.kty = "oct" /\ jwk.k > 0
    THEN [ok |-> TRUE, key |-> [type |-> "secret", k |-> jwk.k]]
    ELSE [ok |-> FALSE, key |-> [type |-> "secret", k |-> 0]]

\* ------------------------------------------------------------- primitives
VARIABLES
    signed,     \* <<n, data, signature>>: signatures the private key of n has made
    encrypted   \* <<k, iv, ciphertext>>: ciphertexts made under key k and nonce iv

\* a nonce that does not depend on what was drawn
MutRandomIvFixed(r) == Zeros(IvLen)

\* crypto.getRandomValues(new Uint8Array(12)): r is the randomness drawn
RandomIv(r) == <<r>> \o Zeros(IvLen - 1)

KeyStream(k, iv, i) == (k * 31 + SumSeq(iv) * 7 + i * 13) % 256

\* AES-GCM: the enciphered bytes followed by the authentication tag
AesGcmEncrypt(data, key, iv) ==
    LET body == [i \in 1..Len(data) |-> (data[i] + KeyStream(key.k, iv, i)) % 256]
    IN body \o <<key.k % 256, SumSeq(iv) % 256, SumSeq(body) % 256, Len(body) % 256>>

\* AES-GCM decryption: OperationError unless the tag authenticates the
\* ciphertext under this key and nonce
AesGcmDecrypt(ct, key, iv) ==
    IF <<key.k, iv, ct>> \in encrypted
    THEN [ok |-> TRUE,
          data |-> [i \in 1..(Len(ct) - 4) |-> (ct[i] + 256 - KeyStream(key.k, iv, i)) % 256]]
    ELSE [ok |-> FALSE, data |-> <<>>]

\* RSA-PSS with a 32 byte salt: s is the salt drawn
signData(privateKey, data, s) ==
    <<privateKey.n, s, SumSeq(data) % 256, Len(data) % 256>>

\* a verification that accepts a signature made by any key pair
MutVerifyAnySigner(publicKey, signature, data) ==
    \E n \in 1..4 : <<n, data, signature>> \in signed

\* crypto.subtle.verify
verifySignature(publicKey, signature, data) ==
    <<publicKey.n, data, signature>> \in signed

\* encryptMessage without its randomness: iv is what getRandomValues returned
encryptMessage(text, key, iv) ==
    [iv |-> iv, encryptedData |-> AesGcmEncrypt(TextEncode(text), key, iv)]

\* the string decryptMessage returns from its catch block, abbreviated to its
\* first code unit U+26A0
DecryptFailedText == <<9888>>

decryptMessage(encryptedData, iv, key) ==
    LET r == AesGcmDecrypt(encryptedData, key, iv)
    IN IF r.ok THEN TextDecode(r.data) ELSE DecryptFailedText

\* ---------------------------------------------------------------- payloads
NoPayload ==
    [id |-> 0, senderId |-> 0, iv |-> <<>>, encryptedData |-> <<>>, signature |-> <<>>,
     timestamp |-> 0]

FailPoints == {"none", "rng", "encrypt", "importKey", "sign"}

\* createEncryptedPayload. rnd holds what the environment contributes: the
\* random nonce and salt, the fresh id, the clock, and which platform call
\* (if any) rejects.
createEncryptedPayload(text, localIdentity, sharedKey, rnd) ==
    LET iv == RandomIv(rnd.iv)
        enc == encryptMessage(text, sharedKey, iv)
        imported == importPrivateKey(localIdentity.privateKey)
        signature == signData(imported.key, enc.encryptedData, rnd.salt)
        failed(e, made) ==
            [ok |-> FALSE, error |-> e, payload |-> NoPayload,
             enc |-> IF made THEN {<<sharedKey.k, iv, enc.encryptedData>>} ELSE {},
             sig |-> {}]
    IN IF rnd.fail = "rng" THEN failed("RandomnessUnavailable", FALSE)
       ELSE IF rnd.fail = "encrypt" THEN failed("OperationError", FALSE)
       ELSE IF rnd.fail = "importKey" \/ ~imported.ok THEN failed("DataError", TRUE)
       ELSE IF rnd.fail = "sign" THEN failed("OperationError", TRUE)
       ELSE [ok |-> TRUE, error |-> "",
             payload |-> [id |-> rnd.id,
                          senderId |-> localIdentity.userId,
                          iv |-> arrayBufferToBase64(iv),
                          encryptedData |-> arrayBufferToBase64(enc.encryptedData),
                          signature |-> arrayBufferToBase64(signature),
                          timestamp |-> rnd.now],
             enc |-> {<<sharedKey.k, iv, enc.encryptedData>>},
             sig |-> {<<imported.key.n, enc.encryptedData, signature>>}]

SignatureInvalid == "Message signature is invalid! The sender's identity could not be verified."

\* decrypt-then-verify: the ciphertext is decrypted before its signature is
\* looked at
MutReadDecryptThenVerify(payload, peerIdentity, sharedKey) ==
    LET encryptedData == base64ToArrayBuffer(payload.encryptedData)
        signature == base64ToArrayBuffer(payload.signature)
        iv == base64ToArrayBuffer(payload.iv)
        publicKey == importPublicKey(peerIdentity.publicKey)
        text == decryptMessage(encryptedData.bytes, iv.bytes, sharedKey)
        thrown(e, calls) == [ok |-> FALSE, text |-> <<>>, error |-> e, calls |-> calls]
    IN IF ~encryptedData.ok \/ ~signature.ok \/ ~iv.ok
       THEN thrown("InvalidCharacterError", <<"atob">>)
       ELSE IF ~publicKey.ok
       THEN thrown("DataError", <<"atob", "importKey">>)
       ELSE IF ~verifySignature(publicKey.key, signature.bytes, encryptedData.bytes)
       THEN thrown(SignatureInvalid, <<"atob", "importKey", "decrypt", "verify">>)
       ELSE [ok |-> TRUE, text |-> text, error |-> "",
             calls |-> <<"atob", "importKey", "decrypt", "verify">>]

\* readEncryptedPayload, with the platform calls it makes in order (calls)
readEncryptedPayload(payload, peerIdentity, sharedKey) ==
    LET encryptedData == base64ToArrayBuffer(payload.encryptedData)
        signature == base64ToArrayBuffer(payload.signature)
        iv == base64ToArrayBuffer(payload.iv)
        publicKey == importPublicKey(peerIdentity.publicKey)
        isVerified == verifySignature(publicKey.key, signature.bytes, encryptedData.bytes)
        thrown(e, calls) == [ok |-> FALSE, text |-> <<>>, error |-> e, calls |-> calls]
    IN IF ~encryptedData.ok \/ ~signature.ok \/ ~iv.ok
       THEN thrown("InvalidCharacterError", <<"atob">>)
       ELSE IF ~publicKey.ok
       THEN thrown("DataError", <<"atob", "importKey">>)
       ELSE IF ~isVerified
       THEN thrown(SignatureInvalid, <<"atob", "importKey", "verify">>)
       ELSE [ok |-> TRUE,
             text |-> decryptMessage(encryptedData.bytes, iv.bytes, sharedKey),
             error |-> "",
             calls |-> <<"atob", "importKey", "verify", "decrypt">>]

\* ---------------------------------------------------------------- identity
\* generatePublicKeyFingerprint: the digest of the serialised key, taken to
\* be free of collisions
generatePublicKeyFingerprint(publicKey) == <<publicKey.kty, publicKey.n, publicKey.d>>

\* the identity handleCreateIdentity builds from a fresh key pair n
NewIdentity(userId, username, n) ==
    LET keyPair == generateRsaKeyPair(n)
        publicKey == exportKey(keyPair.publicKey)
        privateKey == exportKey(keyPair.privateKey)
    IN [userId |-> userId, username |-> username, publicKey |-> publicKey,
        privateKey |-> privateKey,
        publicKeyFingerprint |-> generatePublicKeyFingerprint(publicKey)]

\* the whole identity is handed out, private key included
MutPublicIdentityLeaks(identity) == identity

\* getPublicIdentity: the PublicIdentity fields of an identity
getPublicIdentity(identity) ==
    [userId |-> identity.userId, username |-> identity.username,
     publicKey |-> identity.publicKey,
     publicKeyFingerprint |-> identity.publicKeyFingerprint]

\* ------------------------------------------------- the envelope functions
\* Inputs of createEncryptedPayload and readEncryptedPayload: plaintexts
\* (empty, ASCII, two-byte, the text of decryptMessage's catch block, a
\* leading byte order mark, an unpaired surrogate, inner blank), two key
\* pairs, two session keys.
Plaintexts ==
    {<<>>, <<97>>, <<233, 97>>, DecryptFailedText, <<ByteOrderMark, 97>>, <<55296>>,
     <<97, 32, 98>>}
KeyPairs == {1, 2}
AesKeys == {1, 2}
Randomness == {1, 2}

VARIABLE core   \* one seal / alter / open run of the envelope functions

CoreIdentity(n) == NewIdentity(100 + n, <<96 + n>>, n)

\* what may be done to a base64 field in transit: one symbol replaced by its
\* successor in the alphabet or by a character outside it, the padding
\* dropped, a blank appended
Altered(b64) ==
    ( {[b64 EXCEPT ![i] = (b64[i] + 1) % 64] : i \in {j \in 1..Len(b64) : b64[j] < 64}}
      \cup {[b64 EXCEPT ![i] = Other] : i \in 1..Len(b64)}
      \cup {StripPadding(b64), b64 \o <<Blank>>} ) \ {b64}

InitCoreRun ==
    /\ core \in [pc : {"ready"}, text : Plaintexts, signer : KeyPairs, key : AesKeys,
                 openKey : AesKeys, claimed : KeyPairs, altered : {"none"},
                 sealed : {[ok |-> FALSE, error |-> "", payload |-> NoPayload]},
                 env : {NoPayload},
                 read : {[ok |-> FALSE, text |-> <<>>, error |-> "", calls |-> <<>>]}]
    /\ signed = {}
    /\ encrypted = {}

\* createEncryptedPayload(text, identity of signer, key)
CoreSeal ==
    /\ core.pc = "ready"
    /\ \E r \in Randomness, s \in Randomness, f \in FailPoints :
        LET res == createEncryptedPayload(core.text, CoreIdentity(core.signer),
                        generateSharedSecret(core.key),
                        [iv |-> r, salt |-> s, fail |-> f, id |-> 1, now |-> 1])
        IN /\ core' = [core EXCEPT !.pc = IF res.ok THEN "sealed" ELSE "failed",
                                   !.sealed = [ok |-> res.ok, error |-> res.error,
                                               payload |-> res.payload],
                                   !.env = res.payload]
           /\ signed' = signed \cup res.sig
           /\ encrypted' = encrypted \cup res.enc

\* the same field cut short by one group of four symbols
Shortened(b64) == IF Len(b64) >= 4 THEN {SubSeq(b64, 1, Len(b64) - 4)} ELSE {}

\* the envelope is altered in transit: its ciphertext, its signature or its
\* nonce
CoreAlter ==
    /\ core.pc = "sealed"
    /\ core.altered = "none"
    /\ \/ \E v \in Altered(core.env.encryptedData) :
            core' = [core EXCEPT !.altered = "ciphertext", !.env.encryptedData = v]
       \/ \E v \in Altered(core.env.signature) :
            core' = [core EXCEPT !.altered = "signature", !.env.signature = v]
       \/ \E v \in Altered(core.env.iv) \cup Shortened(core.env.iv) :
            core' = [core EXCEPT !.altered = "iv", !.env.iv = v]
    /\ UNCHANGED <<signed, encrypted>>

\* readEncryptedPayload(envelope, public identity of claimed, openKey)
CoreOpen ==
    /\ core.pc = "sealed"
    /\ core' = [core EXCEPT !.pc = "opened",
                            !.read = readEncryptedPayload(core.env,
                                        getPublicIdentity(CoreIdentity(core.claimed)),
                                        generateSharedSecret(core.openKey))]
    /\ UNCHANGED <<signed, encrypted>>

\* ------------------------------------------------ claims on the envelope
Opened == core.pc = "opened"
Untouched == core.altered = "none"
RightSender == core.claimed = core.signer
RightKey == core.openKey = core.key

\* what the opener's verification of the envelope in hand evaluates to
EnvDecodes ==
    /\ base64ToArrayBuffer(core.env.encryptedData).ok
    /\ base64ToArrayBuffer(core.env.signature).ok
    /\ base64ToArrayBuffer(core.env.iv).ok
EnvVerifies ==
    /\ EnvDecodes
    /\ <<core.claimed, base64ToArrayBuffer(core.env.encryptedData).bytes,
         base64ToArrayBuffer(core.env.signature).bytes>> \in signed
EnvDecrypts ==
    /\ EnvDecodes
    /\ <<core.openKey, base64ToArrayBuffer(core.env.iv).bytes,
         base64ToArrayBuffer(core.env.encryptedData).bytes>> \in encrypted

Position(calls, c) == {i \in 1..Len(calls) : calls[i] = c}

\* C1: opening the envelope sealed from P by I under K, with the public
\* identity of I and with K, returns exactly P.
C1_RoundTrip ==
    (Opened /\ Untouched /\ RightSender /\ RightKey)
        => (core.read.ok /\ core.read.text = core.text)

\* C2: readEncryptedPayload calls decryptMessage only after verifySignature
\* returned true for the envelope's ciphertext under the claimed sender's
\* key; when verification fails it aborts with the signature error and
\* never decrypts.
C2_VerifyThenDecrypt ==
    Opened =>
        /\ \A i \in Position(core.read.calls, "decrypt") :
                /\ EnvVerifies
                /\ \E j \in Position(core.read.calls, "verify") : j < i
        /\ (EnvDecodes /\ ~EnvVerifies) =>
                /\ ~core.read.ok
                /\ core.read.error = SignatureInvalid
                /\ Position(core.read.calls, "decrypt") = {}

\* C2 witness: an open whose verification failed, and which stopped there
C2_Witness ==
    /\ Opened /\ EnvDecodes /\ ~EnvVerifies
    /\ core.read.calls = <<"atob", "importKey", "verify">>

\* C3: opening with another session key than the sealing one (right sender)
\* fails, and the failure reaches the caller.
C3_WrongKeyFails ==
    (Opened /\ Untouched /\ RightSender /\ ~RightKey) => ~core.read.ok

\* the outcomes readEncryptedPayload gives for successfully decrypted messages
SuccessOutcomes == {[ok |-> TRUE, text |-> TextDecode(TextEncode(t))] : t \in Plaintexts}

\* C4: when the signature verifies and decryption fails, the caller gets an
\* outcome that no successfully decrypted message can produce.
C4_FailureDistinguishable ==
    (Opened /\ EnvVerifies /\ ~EnvDecrypts)
        => [ok |-> core.read.ok, text |-> core.read.text] \notin SuccessOutcomes

\* C5: a sealed envelope whose ciphertext or signature was changed to any
\* other value fails to open, with the signature-verification error.
C5_TamperDetected ==
    (Opened /\ core.altered \in {"ciphertext", "signature"} /\ RightSender /\ RightKey)
        => (~core.read.ok /\ core.read.error = SignatureInvalid)

\* C6: opening with a claimed sender whose public key is that of another key
\* pair than the signer's fails with the signature-verification error,
\* whatever the session key.
C6_WrongSenderRejected ==
    (Opened /\ Untouched /\ ~RightSender)
        => (~core.read.ok /\ core.read.error = SignatureInvalid)

\* C6 witness: a wrong claimed sender with the right session key, rejected
C6_Witness ==
    /\ Opened /\ Untouched /\ ~RightSender /\ RightKey
    /\ core.read.error = SignatureInvalid

\* standard padded base64: the text btoa gives for the bytes it decodes to
ValidlyEncoded(b64) ==
    /\ base64ToArrayBuffer(b64).ok
    /\ arrayBufferToBase64(base64ToArrayBuffer(b64).bytes) = b64

\* an envelope with a field that is not validly encoded, or whose nonce does
\* not decode to the AES-GCM nonce size
EnvMalformed ==
    \/ ~ValidlyEncoded(core.env.iv)
    \/ ~ValidlyEncoded(core.env.encryptedData)
    \/ ~ValidlyEncoded(core.env.signature)
    \/ Len(base64ToArrayBuffer(core.env.iv).bytes) # IvLen

\* C13: readEncryptedPayload fails on a malformed envelope while decoding
\* it, before any key is imported, signature verified or ciphertext
\* decrypted.
C13_StrictDecoding ==
    (Opened /\ EnvMalformed) => (~core.read.ok /\ core.read.calls = <<"atob">>)

\* ------------------------------------------------------ the chat session
VARIABLES
    identity,       \* App: the local identity (useLocalStorage 'user-identity')
    storage,        \* localStorage: userIdentity, peerIdentity, chatMessages, sharedAesKey
    mount,          \* the mounted ChatInterface instance, 0 when none is mounted
    peer,           \* ChatInterface state
    message,
    messages,
    sharedKey,
    error,
    isSending,
    published,      \* the public identity last handed out (published or QR code)
    derives,        \* runs of deriveAndSetSharedKey waiting on the platform
    sends,          \* runs of handleSendMessage waiting on createEncryptedPayload
    timers,         \* deliveries scheduled by setTimeout
    mounts,         \* how many ChatInterface instances there were
    nextId,         \* ids drawn so far (crypto.randomUUID); also the clock
    nextKey,        \* session keys generated so far
    nextPair,       \* key pairs generated so far
    reloads,        \* page reloads so far
    sendCount,      \* sends started so far
    relationship,   \* history: how many peers were connected so far
    sharedKeyFor,   \* history: the relationship sharedKey was derived under
    sealLog,        \* history: the envelopes sealed: peer and key relationship, key, nonce,
                    \* and whether the sent message was appended to the history
    setup,          \* IdentitySetup state: username, isLoading, error
    lastCreate,     \* history: how the last run of handleCreateIdentity ended
    rehydrated      \* history: the keys imported after a reload, and the key in use before it

NullJwk == [kty |-> "null", n |-> 0, d |-> 0]
NoIdentity ==
    [userId |-> 0, username |-> <<>>, publicKey |-> NullJwk, privateKey |-> NullJwk,
     publicKeyFingerprint |-> <<>>]
NoPeer ==
    [userId |-> 0, username |-> <<>>, publicKey |-> NullJwk, publicKeyFingerprint |-> <<>>]
NoSharedKey == [type |-> "secret", k |-> 0]
\* the senderId 'system' of an error entry
SystemSender == 0

EmptyStorage ==
    [userIdentity |-> NoIdentity, peerIdentity |-> NoPeer, chatMessages |-> <<>>,
     sharedAesKey |-> NoAesJwk]

\* the salts of the signatures made in a chat session (the envelope functions
\* on their own are run with every salt of Randomness)
SessionSalts == {1}

\* what the user can put in the message box and in the username box
MessageInputs == {<<32>>, <<32, 233, 32>>}
Usernames == {<<>>, <<32>>, <<97>>}

\* a remote participant's identity, and the text pasted into the peer box:
\* parsed is what JSON.parse gives, valid whether it parses at all
RemoteIdentity(p) == NewIdentity(200 + p, <<110 + p>>, 10 + p)
Pasted(value) == [valid |-> TRUE, parsed |-> value]
NotJson == [valid |-> FALSE, parsed |-> NoPeer]
\* a payload whose field f is missing or empty
Without(p, f) ==
    IF f = "userId" THEN [p EXCEPT !.userId = 0]
    ELSE IF f = "username" THEN [p EXCEPT !.username = <<>>]
    ELSE IF f = "publicKey" THEN [p EXCEPT !.publicKey = NullJwk]
    ELSE [p EXCEPT !.publicKeyFingerprint = <<>>]
\* a payload with a field PublicIdentity does not have
WithExtraField(p) ==
    [userId |-> p.userId, username |-> p.username, publicKey |-> p.publicKey,
     publicKeyFingerprint |-> p.publicKeyFingerprint, role |-> <<97>>]
PeerFields == {"userId", "username", "publicKey", "publicKeyFingerprint"}
\* two remote participants, the user's own public identity, text that is
\* not JSON, payloads with a field missing, a payload with an extra field,
\* a payload whose fingerprint is that of another key, and payloads that
\* carry the user's userId with another participant's key or with no username
PeerInputs(me) ==
    {Pasted(getPublicIdentity(RemoteIdentity(p))) : p \in 1..2}
    \cup {Pasted(getPublicIdentity(me)), NotJson}
    \cup {Pasted(Without(getPublicIdentity(RemoteIdentity(1)), f)) : f \in PeerFields}
    \cup {Pasted(WithExtraField(getPublicIdentity(RemoteIdentity(1)))),
          Pasted([getPublicIdentity(RemoteIdentity(2)) EXCEPT
                    !.publicKeyFingerprint = RemoteIdentity(1).publicKeyFingerprint])}
    \cup {Pasted([getPublicIdentity(RemoteIdentity(1)) EXCEPT !.userId = me.userId]),
          Pasted(Without(getPublicIdentity(me), "username"))}

Mounted(m) == m # 0 /\ m = mount

\* IdentitySetup as it mounts
SetupBlank == [username |-> <<>>, isLoading |-> FALSE, error |-> ""]
UsernameEmpty == "Username cannot be empty."
KeysFailed == "Could not generate cryptographic keys. Please try again."
\* the platform call of handleCreateIdentity that rejects, if any
CreateFailPoints == {"none", "generateKey", "exportKey", "digest"}

\* the operations of the user so far
Ops == (nextPair - 1) + relationship + reloads + sendCount

\* the effect on [peer]: deriveAndSetSharedKey up to its first await (was:
\* the session key in use before the mount, for the history)
StartDerive(p, stored, m, rel, was) ==
    IF p = NoPeer THEN {}
    ELSE IF stored # NoAesJwk
    THEN {[path |-> "import", jwk |-> stored, mount |-> m, rel |-> rel, was |-> was]}
    ELSE {[path |-> "generate", jwk |-> NoAesJwk, mount |-> m, rel |-> rel, was |-> was]}

chatVars ==
    <<peer, message, messages, sharedKey, error, isSending, sharedKeyFor>>
taskVars == <<derives, sends, timers>>
counterVars == <<nextId, nextKey, nextPair, reloads, mounts, relationship, sendCount>>
cryptoVars == <<signed, encrypted>>
setupVars == <<setup, lastCreate>>
vars ==
    <<identity, storage, mount, chatVars, published, taskVars, counterVars, sealLog, rehydrated,
      cryptoVars, core, setupVars>>

\* the state of a ChatInterface that is not mounted, or freshly mounted
\* with nothing stored
ChatIsBlank ==
    /\ peer = NoPeer /\ message = <<>> /\ messages = <<>>
    /\ sharedKey = NoSharedKey /\ error = "" /\ isSending = FALSE
    /\ sharedKeyFor = 0

CoreIdle ==
    core = [pc |-> "idle", text |-> <<>>, signer |-> 1, key |-> 1, openKey |-> 1,
            claimed |-> 1, altered |-> "none",
            sealed |-> [ok |-> FALSE, error |-> "", payload |-> NoPayload],
            env |-> NoPayload,
            read |-> [ok |-> FALSE, text |-> <<>>, error |-> "", calls |-> <<>>]]

SessionInit ==
    /\ identity = NoIdentity
    /\ storage = EmptyStorage
    /\ mount = 0
    /\ ChatIsBlank
    /\ published = NoPeer
    /\ derives = {} /\ sends = {} /\ timers = {}
    /\ nextId = 1 /\ nextKey = 1 /\ nextPair = 1 /\ reloads = 0 /\ mounts = 0
    /\ relationship = 0 /\ sendCount = 0
    /\ sealLog = {}
    /\ rehydrated = {}
    /\ setup = SetupBlank
    /\ lastCreate = ""

Init == SessionInit /\ signed = {} /\ encrypted = {} /\ CoreIdle

\* ------------------------------------------------------------ App actions
\* A ChatInterface mounts: its state is read back from localStorage and the
\* effect on [peer] runs.
MountChat(stored) ==
    /\ mount' = mounts + 1
    /\ mounts' = mounts + 1
    /\ peer' = stored.peerIdentity
    /\ messages' = stored.chatMessages
    /\ message' = <<>> /\ sharedKey' = NoSharedKey
    /\ error' = "" /\ isSending' = FALSE
    /\ sharedKeyFor' = 0

ResetChat ==
    /\ peer' = NoPeer /\ message' = <<>> /\ messages' = <<>>
    /\ sharedKey' = NoSharedKey /\ error' = "" /\ isSending' = FALSE
    /\ sharedKeyFor' = 0

\* an identity is created although fingerprinting failed
MutCreateOutcomeUnbound(username, userId, n, fail) ==
    IF fail \in {"none", "digest"}
    THEN [ok |-> TRUE,
          identity |-> [NewIdentity(userId, username, n) EXCEPT
                            !.publicKeyFingerprint =
                                IF fail = "none" THEN @ ELSE <<>>]]
    ELSE [ok |-> FALSE, identity |-> NoIdentity]

\* the try block of handleCreateIdentity: the identity passed to
\* onIdentityCreated, or the jump to the catch block
CreateOutcome(username, userId, n, fail) ==
    IF fail = "none"
    THEN [ok |-> TRUE, identity |-> NewIdentity(userId, username, n)]
    ELSE [ok |-> FALSE, identity |-> NoIdentity]

\* IdentitySetup.handleCreateIdentity up to its first await, on a click of
\* the button (enabled unless isLoading or the username is empty)
handleCreateIdentity ==
    /\ identity = NoIdentity
    /\ ~setup.isLoading
    /\ Ops < MaxOps
    /\ \E username \in Usernames :
        /\ username # <<>>
        /\ IF Trim(username) = <<>>
           THEN /\ setup' = [username |-> username, isLoading |-> FALSE,
                             error |-> UsernameEmpty]
                /\ lastCreate' = "blank"
           ELSE /\ setup' = [username |-> username, isLoading |-> TRUE, error |-> ""]
                /\ lastCreate' = ""
    /\ UNCHANGED <<identity, storage, mount, chatVars, published, taskVars, counterVars,
                   sealLog, rehydrated, cryptoVars, core>>

\* the awaits of handleCreateIdentity settle: App.handleIdentityCreated and
\* the mount of ChatInterface, or the catch block
CreateSettled ==
    /\ identity = NoIdentity
    /\ setup.isLoading
    /\ \E fail \in CreateFailPoints :
        LET out == CreateOutcome(setup.username, nextId, nextPair, fail)
        IN IF out.ok
           THEN /\ identity' = out.identity
                /\ nextId' = nextId + 1
                /\ nextPair' = nextPair + 1
                /\ storage' = [storage EXCEPT !.userIdentity = out.identity]
                /\ MountChat(storage)
                /\ derives' = derives \cup StartDerive(storage.peerIdentity,
                                            storage.sharedAesKey, mounts + 1, relationship,
                                            NoSharedKey)
                /\ setup' = SetupBlank
                /\ lastCreate' = fail
                /\ UNCHANGED <<published, sends, timers, nextKey, reloads, relationship,
                               sendCount, sealLog, rehydrated, cryptoVars, core>>
           ELSE /\ setup' = [setup EXCEPT !.isLoading = FALSE, !.error = KeysFailed]
                /\ lastCreate' = fail
                /\ UNCHANGED <<identity, storage, mount, chatVars, published, taskVars,
                               counterVars, sealLog, rehydrated, cryptoVars, core>>

\* a logout that leaves 'user-identity' in localStorage
MutLogoutKeepsStored ==
    /\ Mounted(mount)
    /\ identity' = NoIdentity
    /\ storage' = [storage EXCEPT !.peerIdentity = NoPeer, !.chatMessages = <<>>]
    /\ mount' = 0
    /\ ResetChat
    /\ setup' = SetupBlank
    /\ UNCHANGED <<published, taskVars, counterVars, sealLog, rehydrated, cryptoVars, core, lastCreate>>

\* App.handleLogout, confirmed
handleLogout ==
    /\ Mounted(mount)
    /\ identity' = NoIdentity
    /\ storage' = [storage EXCEPT !.userIdentity = NoIdentity, !.peerIdentity = NoPeer,
                                  !.chatMessages = <<>>]
    /\ mount' = 0
    /\ ResetChat
    /\ setup' = SetupBlank
    /\ UNCHANGED <<published, taskVars, counterVars, sealLog, rehydrated, cryptoVars, core, lastCreate>>

\* the page is reloaded: every pending promise and timer is gone, and the
\* components mount again from localStorage
Reload ==
    /\ Ops < MaxOps
    /\ reloads' = reloads + 1
    /\ identity' = storage.userIdentity
    /\ sends' = {} /\ timers' = {}
    /\ IF storage.userIdentity = NoIdentity
       THEN /\ mount' = 0 /\ mounts' = mounts /\ ResetChat /\ derives' = {}
       ELSE /\ MountChat(storage)
            /\ derives' = StartDerive(storage.peerIdentity, storage.sharedAesKey,
                                      mounts + 1, relationship, sharedKey)
    /\ setup' = SetupBlank
    /\ lastCreate' = ""
    /\ UNCHANGED <<storage, published, nextId, nextKey, nextPair, relationship, sendCount,
                   sealLog, rehydrated, cryptoVars, core>>

\* ------------------------------------------------- ChatInterface actions
InvalidFormat ==
    "Invalid peer identity format. Please paste the correct JSON payload or scan a valid QR code."
SelfPeer == "You can't add yourself as a peer."

\* the fields handleAddPeer requires to be truthy
WellFormedPeer(p) ==
    /\ p.userId # 0 /\ p.username # <<>> /\ p.publicKey # NullJwk
    /\ p.publicKeyFingerprint # <<>>

\* a payload is connected without the comparison with identity.userId
MutAddPeerUnchecked(input) ==
    /\ Mounted(mount) /\ peer = NoPeer
    /\ Ops < MaxOps
    /\ IF input.valid /\ WellFormedPeer(input.parsed)
       THEN /\ error' = ""
            /\ peer' = input.parsed
            /\ messages' = <<>>
            /\ storage' = [storage EXCEPT !.peerIdentity = input.parsed,
                                          !.chatMessages = <<>>,
                                          !.sharedAesKey = NoAesJwk]
            /\ relationship' = relationship + 1
            /\ derives' = derives \cup StartDerive(input.parsed, NoAesJwk, mount,
                                                  relationship + 1, NoSharedKey)
       ELSE /\ error' = InvalidFormat
            /\ UNCHANGED <<peer, messages, storage, derives, relationship>>
    /\ UNCHANGED <<identity, mount, message, sharedKey, isSending, sharedKeyFor, published, sends, timers, nextId, nextKey, nextPair,
                   reloads, mounts, sendCount, sealLog, rehydrated, cryptoVars, core, setupVars>>

\* handleAddPeer on one text of the peer box, with the effects of the render
\* that follows (useLocalStorage writes, deriveAndSetSharedKey starts)
AddPeer(input) ==
    /\ Mounted(mount) /\ peer = NoPeer
    /\ Ops < MaxOps
    /\ IF input.valid /\ WellFormedPeer(input.parsed)
       THEN IF input.parsed.userId = identity.userId
            THEN /\ error' = SelfPeer
                 /\ UNCHANGED <<peer, messages, storage, derives, relationship>>
            ELSE /\ error' = ""
                 /\ peer' = input.parsed
                 /\ messages' = <<>>
                 /\ storage' = [storage EXCEPT !.peerIdentity = input.parsed,
                                               !.chatMessages = <<>>,
                                               !.sharedAesKey = NoAesJwk]
                 /\ relationship' = relationship + 1
                 /\ derives' = derives \cup StartDerive(input.parsed, NoAesJwk, mount,
                                                       relationship + 1, NoSharedKey)
       ELSE /\ error' = InvalidFormat
            /\ UNCHANGED <<peer, messages, storage, derives, relationship>>
    /\ UNCHANGED <<identity, mount, message, sharedKey, isSending, sharedKeyFor, published, sends, timers, nextId, nextKey, nextPair,
                   reloads, mounts, sendCount, sealLog, rehydrated, cryptoVars, core, setupVars>>

\* handleAddPeer on whatever text is in the peer box
handleAddPeer == \E input \in PeerInputs(identity) : AddPeer(input)

\* the Disconnect button
Disconnect ==
    /\ Mounted(mount) /\ peer # NoPeer
    /\ peer' = NoPeer
    /\ storage' = [storage EXCEPT !.peerIdentity = NoPeer]
    /\ UNCHANGED <<identity, mount, message, messages, sharedKey, error,
                   isSending, sharedKeyFor, published, taskVars,
                   counterVars, sealLog, rehydrated, cryptoVars, core, setupVars>>

\* deriveAndSetSharedKey, import branch: importAesKey settles
DeriveImported ==
    \E d \in derives :
        /\ d.path = "import"
        /\ derives' = derives \ {d}
        /\ LET r == importAesKey(d.jwk)
           IN IF r.ok /\ Mounted(d.mount)
              THEN /\ sharedKey' = r.key /\ sharedKeyFor' = d.rel
                   /\ rehydrated' = rehydrated \cup {[was |-> d.was, key |-> r.key]}
              ELSE UNCHANGED <<sharedKey, sharedKeyFor, rehydrated>>
        /\ UNCHANGED <<identity, storage, mount, peer, message, messages, error,
                       isSending, published, sends, timers, counterVars,
                       sealLog, cryptoVars, core, setupVars>>

\* deriveAndSetSharedKey, generate branch: generateSharedSecret and
\* exportAesKey settle, the key is stored and set
DeriveGenerated ==
    \E d \in derives :
        /\ d.path = "generate"
        /\ derives' = derives \ {d}
        /\ LET newKey == generateSharedSecret(nextKey)
           IN /\ storage' = [storage EXCEPT !.sharedAesKey = exportAesKey(newKey)]
              /\ IF Mounted(d.mount)
                 THEN sharedKey' = newKey /\ sharedKeyFor' = d.rel
                 ELSE UNCHANGED <<sharedKey, sharedKeyFor>>
        /\ nextKey' = nextKey + 1
        /\ UNCHANGED <<identity, mount, peer, message, messages, error,
                       isSending, published, sends, timers, nextId,
                       nextPair, reloads, mounts, relationship, sendCount, sealLog, rehydrated,
                       cryptoVars, core, setupVars>>

\* typing in the message box (disabled while a send is in progress)
SetMessage ==
    /\ Mounted(mount) /\ peer # NoPeer /\ ~isSending
    /\ \E t \in MessageInputs : t # message /\ message' = t
    /\ UNCHANGED <<identity, storage, mount, peer, messages, sharedKey, error,
                   isSending, sharedKeyFor, published, taskVars,
                   counterVars, sealLog, rehydrated, cryptoVars, core, setupVars>>

\* copyIdentity
copyIdentity ==
    /\ Mounted(mount)
    /\ published' = getPublicIdentity(identity)
    /\ published' # published
    /\ UNCHANGED <<identity, storage, mount, chatVars, taskVars, counterVars, sealLog, rehydrated,
                   cryptoVars, core, setupVars>>

\* the QR code modal renders JSON.stringify(getPublicIdentity())
ShowQr ==
    /\ Mounted(mount)
    /\ published' = getPublicIdentity(identity)
    /\ published' # published
    /\ UNCHANGED <<identity, storage, mount, chatVars, taskVars, counterVars, sealLog, rehydrated,
                   cryptoVars, core, setupVars>>

\* ---------------------------------------------------------------- sending
Text(prefix, body, err) == [prefix |-> prefix, body |-> body, err |-> err]

Delivery(task, payload) ==
    [payload |-> payload, identity |-> task.identity, peer |-> task.peer,
     sharedKey |-> task.sharedKey, mount |-> task.mount]

\* the sent message is shown and its delivery scheduled whether or not the
\* envelope was built
MutSendOutcomeOptimistic(task, res, id) ==
    [append |-> [id |-> id, senderId |-> task.identity.userId,
                 text |-> Text("", task.text, ""), timestamp |-> id,
                 isLocalSender |-> TRUE],
     schedule |-> {Delivery(task, res.payload)}]

\* handleSendMessage after createEncryptedPayload settled with res: the
\* entry appended to the history and the deliveries scheduled. id is what
\* crypto.randomUUID and Date.now give the error entry.
SendOutcome(task, res, id) ==
    IF res.ok
    THEN [append |-> [id |-> res.payload.id, senderId |-> task.identity.userId,
                      text |-> Text("", task.text, ""),
                      timestamp |-> res.payload.timestamp, isLocalSender |-> TRUE],
          schedule |-> {Delivery(task, res.payload)}]
    ELSE [append |-> [id |-> id, senderId |-> SystemSender,
                      text |-> Text("Error sending message: ", <<>>, res.error),
                      timestamp |-> id, isLocalSender |-> TRUE],
          schedule |-> {}]

\* the callback of setTimeout: the entry it appends
DeliveryOutcome(timer, id) ==
    LET r == readEncryptedPayload(timer.payload, timer.identity, timer.sharedKey)
    IN IF r.ok
       THEN [id |-> id, senderId |-> timer.peer.userId,
             text |-> Text("(Simulated Decryption) ", r.text, ""),
             timestamp |-> timer.payload.timestamp, isLocalSender |-> FALSE]
       ELSE [id |-> id, senderId |-> SystemSender,
             text |-> Text("Error receiving message: ", <<>>, r.error),
             timestamp |-> id, isLocalSender |-> FALSE]

\* a message is sent without a session key
MutSendGateKeyless == Trim(message) # <<>> /\ peer # NoPeer

\* the guard of handleSendMessage: there is text, a peer and a session key
SendGate == Trim(message) # <<>> /\ peer # NoPeer /\ sharedKey # NoSharedKey

\* handleSendMessage up to its await, or to its early return (the send
\* button and the Enter key are dead while isSending)
SendStart ==
    /\ Mounted(mount) /\ ~isSending
    /\ IF SendGate
       THEN /\ Ops < MaxOps
            /\ isSending' = TRUE
            /\ sendCount' = sendCount + 1
            /\ sends' = sends \cup {[text |-> Trim(message), identity |-> identity,
                                     peer |-> peer, sharedKey |-> sharedKey, mount |-> mount,
                                     peerRel |-> relationship, keyRel |-> sharedKeyFor]}
            /\ UNCHANGED <<identity, storage, mount, peer, message, messages, sharedKey,
                           error, sharedKeyFor, published, derives, timers,
                           nextId, nextKey, nextPair, reloads, mounts, relationship, sealLog,
                           rehydrated, cryptoVars, core, setupVars>>
       ELSE UNCHANGED vars

\* createEncryptedPayload settles and handleSendMessage runs to its end
SendSettled ==
    \E task \in sends, r \in Randomness, s \in SessionSalts, f \in FailPoints :
        LET res == createEncryptedPayload(task.text, task.identity, task.sharedKey,
                        [iv |-> r, salt |-> s, fail |-> f, id |-> nextId, now |-> nextId])
            out == SendOutcome(task, res, nextId)
        IN /\ sends' = sends \ {task}
           /\ timers' = timers \cup out.schedule
           /\ nextId' = nextId + 1
           /\ signed' = signed \cup res.sig
           /\ encrypted' = encrypted \cup res.enc
           /\ sealLog' = IF res.ok
                         THEN sealLog \cup {[id |-> res.payload.id, peerRel |-> task.peerRel,
                                             keyRel |-> task.keyRel,
                                             key |-> task.sharedKey.k, draw |-> r,
                                             iv |-> base64ToArrayBuffer(res.payload.iv).bytes,
                                             shown |-> Mounted(task.mount)]}
                         ELSE sealLog
           /\ IF Mounted(task.mount)
              THEN /\ messages' = Append(messages, out.append)
                   /\ storage' = [storage EXCEPT !.chatMessages = messages']
                   /\ message' = IF res.ok THEN <<>> ELSE message
                   /\ isSending' = FALSE
              ELSE UNCHANGED <<messages, storage, message, isSending>>
           /\ UNCHANGED <<identity, mount, peer, sharedKey, error,
                          sharedKeyFor, published, derives, nextKey,
                          nextPair, reloads, mounts, relationship, sendCount, rehydrated,
                          core, setupVars>>

\* a scheduled delivery fires: the envelope is opened and the result appended
Deliver ==
    \E timer \in timers :
        /\ timers' = timers \ {timer}
        /\ nextId' = nextId + 1
        /\ IF Mounted(timer.mount)
           THEN /\ messages' = Append(messages, DeliveryOutcome(timer, nextId))
                /\ storage' = [storage EXCEPT !.chatMessages = messages']
           ELSE UNCHANGED <<messages, storage>>
        /\ UNCHANGED <<identity, mount, peer, message, sharedKey, error,
                       isSending, sharedKeyFor, published, derives, sends,
                       nextKey, nextPair, reloads, mounts, relationship, sendCount,
                       sealLog, rehydrated, cryptoVars, core, setupVars>>

Next ==
    \/ handleCreateIdentity
    \/ CreateSettled
    \/ handleLogout
    \/ Reload
    \/ handleAddPeer
    \/ Disconnect
    \/ DeriveImported
    \/ DeriveGenerated
    \/ SetMessage
    \/ SendStart
    \/ SendSettled
    \/ Deliver
    \/ copyIdentity
    \/ ShowQr

Spec == Init /\ [][Next]_vars

\* The life of the session key: the operations that mount the chat, change
\* the peer or touch 'shared-aes-key', with localStorage open to its
\* environment and with the browser's scheduling (a pending promise settles).
\* a 'shared-aes-key' entry that importKey rejects
CorruptJwk == [kty |-> "corrupt", k |-> 0]

\* something else than this code (another script of the origin, the user)
\* overwrites the 'shared-aes-key' entry
StorageCorrupted ==
    /\ storage.sharedAesKey \notin {NoAesJwk, CorruptJwk}
    /\ storage' = [storage EXCEPT !.sharedAesKey = CorruptJwk]
    /\ UNCHANGED <<identity, mount, chatVars, published, taskVars, counterVars, sealLog,
                   rehydrated, cryptoVars, core, setupVars>>

\* behaviours of at most MaxLiveOps operations of the user
NextLive ==
    /\ \/ handleCreateIdentity
       \/ CreateSettled
       \/ handleLogout
       \/ Reload
       \/ handleAddPeer
       \/ Disconnect
       \/ DeriveImported
       \/ DeriveGenerated
       \/ StorageCorrupted
    /\ Ops' <= MaxLiveOps

Fairness ==
    /\ WF_vars(CreateSettled)
    /\ WF_vars(DeriveImported)
    /\ WF_vars(DeriveGenerated)

SpecLive == Init /\ [][NextLive]_vars /\ Fairness

\* the envelope functions on their own: inputs drawn by InitCoreRun
sessionVars ==
    <<identity, storage, mount, chatVars, published, taskVars, counterVars, sealLog, rehydrated,
      setupVars>>
InitCore == InitCoreRun /\ SessionInit
NextCore == (CoreSeal \/ CoreAlter \/ CoreOpen) /\ UNCHANGED sessionVars
SpecCore == InitCore /\ [][NextCore]_vars

\* ------------------------------------------------- claims on the session
\* C7: no envelope is sealed for a peer with a session key that was created
\* or loaded for an earlier peer relationship.
C7_NoStaleKeyAcrossPeers == \A e \in sealLog : e.keyRel = e.peerRel

\* C8: with a peer connected and no key derivation in flight, the session
\* key in memory and the key persisted under 'shared-aes-key' are one key.
C8_OneSessionKey ==
    (Mounted(mount) /\ peer # NoPeer /\ derives = {})
        => (sharedKey # NoSharedKey /\ storage.sharedAesKey = exportAesKey(sharedKey))

EnvelopeFields == {"id", "senderId", "iv", "encryptedData", "signature", "timestamp"}

\* no private key in what was handed out: the public identity last copied or
\* shown, and the envelopes on their way
NothingPrivateOut ==
    /\ "privateKey" \notin DOMAIN published
    /\ published.publicKey.d = 0
    /\ \A t \in timers : DOMAIN t.payload = EnvelopeFields

\* handing out the public identity changes nothing else
HandingOutIsPure ==
    published' # published
        => UNCHANGED <<identity, storage, mount, chatVars, taskVars, counterVars, sealLog, rehydrated,
                       cryptoVars, setupVars>>

\* C9: no outbound artifact (the public identity of getPublicIdentity, the
\* envelopes of createEncryptedPayload) holds the private key, and
\* getPublicIdentity changes no state.
C9_PrivateKeyStaysLocal == []NothingPrivateOut /\ [][HandingOutIsPure]_vars

\* C9 witness: a public identity was handed out and an envelope is on its way
C9_Witness == published # NoPeer /\ published.userId = identity.userId /\ timers # {}

\* a step in which createEncryptedPayload failed for a send in progress
SealFailed(task) ==
    /\ task \in sends /\ sends' = sends \ {task}
    /\ reloads' = reloads
    /\ sealLog' = sealLog

\* C10: when createEncryptedPayload fails, handleSendMessage appends no sent
\* message and schedules no delivery; the history gains one error entry.
C10_AtomicConstruction ==
    [][\A task \in sends :
        SealFailed(task) =>
            /\ timers' = timers
            /\ IF Mounted(task.mount)
               THEN /\ Len(messages') = Len(messages) + 1
                    /\ SubSeq(messages', 1, Len(messages)) = messages
                    /\ Last(messages').senderId = SystemSender
               ELSE messages' = messages]_vars

\* C10 witness: the error entry of a failed send is in the history
C10_Witness ==
    \E i \in 1..Len(messages) :
        /\ messages[i].senderId = SystemSender /\ messages[i].isLocalSender
        /\ timers = {}

\* two envelopes sealed under one session key
SameKeySeals == {<<a, b>> \in sealLog \X sealLog : a.id # b.id /\ a.key = b.key}

\* C11: the nonces of the envelopes createEncryptedPayload produced under one
\* session key are pairwise distinct.
C11_NonceNeverReused == \A p \in SameKeySeals : p[1].iv # p[2].iv

\* C11 as amended: every envelope carries a 12 byte nonce, and two envelopes
\* under one session key carry distinct nonces whenever getRandomValues
\* returned distinct values to their calls.
C11_NonceIsTheFreshDraw ==
    /\ \A e \in sealLog : Len(e.iv) = IvLen
    /\ \A p \in SameKeySeals : p[1].draw # p[2].draw => p[1].iv # p[2].iv

\* C11 witness: two envelopes under one session key from distinct draws
C11_Witness == \E p \in SameKeySeals : p[1].draw # p[2].draw /\ p[1].iv # p[2].iv

\* the fingerprint field is the fingerprint of the public key beside it
Bound(p) == p.publicKeyFingerprint = generatePublicKeyFingerprint(p.publicKey)

\* C12: the local identity and every peer identity the system holds (in
\* state or persisted) carry the fingerprint of their own public key.
C12_FingerprintBinding ==
    /\ identity # NoIdentity => Bound(identity)
    /\ storage.userIdentity # NoIdentity => Bound(storage.userIdentity)
    /\ peer # NoPeer => Bound(peer)
    /\ storage.peerIdentity # NoPeer => Bound(storage.peerIdentity)

\* the entry the delivery callback of handleSendMessage appends for the
\* envelope of the run of the envelope functions, opened as that run opens it
CoreDelivered ==
    DeliveryOutcome([payload |-> core.env,
                     identity |-> getPublicIdentity(CoreIdentity(core.claimed)),
                     peer |-> getPublicIdentity(CoreIdentity(core.claimed)),
                     sharedKey |-> generateSharedSecret(core.openKey),
                     mount |-> 0], 0)

\* C14: an envelope ends Opened (delivered as a received message) exactly
\* when its signature verified and its decryption succeeded, and Rejected
\* (reported as an error entry) on a verification or decryption failure.
C14_OpenedOrRejected ==
    Opened => ((CoreDelivered.senderId # SystemSender) <=> (EnvVerifies /\ EnvDecrypts))

\* C15: after a run of handleCreateIdentity in which key generation, key
\* export or fingerprinting failed, or one started with a whitespace-only
\* username, there is no identity (in state or persisted), no chat is
\* mounted, and IdentitySetup shows the error.
C15_OnboardingFailsClosed ==
    lastCreate \in (CreateFailPoints \ {"none"}) \cup {"blank"} =>
        /\ identity = NoIdentity
        /\ storage.userIdentity = NoIdentity
        /\ mount = 0
        /\ ~setup.isLoading
        /\ setup.error = IF lastCreate = "blank" THEN UsernameEmpty ELSE KeysFailed

\* C15 witness: fingerprinting failed after an identity had been created and
\* deleted before
C15_Witness == lastCreate = "digest" /\ nextPair > 1 /\ setup.error = KeysFailed

\* the identity is deleted: gone from state and from localStorage, and the
\* chat is no longer mounted
IdentityDeleted ==
    identity' = NoIdentity /\ storage'.userIdentity = NoIdentity /\ mount' = 0

\* C16: once the identity is set its value stays the same, in state and as
\* persisted, until a logout deletes it; an identity is only ever created
\* when there is none.
C16_IdentityLifecycle ==
    [][/\ identity # NoIdentity =>
            \/ identity' = identity /\ storage'.userIdentity = identity
            \/ IdentityDeleted
       /\ (identity' # NoIdentity /\ identity' # identity) =>
            (identity = NoIdentity /\ storage.userIdentity = NoIdentity)]_vars

\* C16 witness: a second identity, created after the first was deleted
C16_Witness == identity # NoIdentity /\ nextPair = 3 /\ identity.publicKey.n = 2

\* a payload with the four fields of PublicIdentity, all present, and no other
StrictPeer(p) == DOMAIN p = PeerFields /\ WellFormedPeer(p)

\* C17: handleAddPeer rejects every payload that misses a field or carries an
\* extra one: no such payload ever becomes the connected peer or the
\* persisted one.
C17_OnlyStrictPeersAccepted ==
    /\ peer # NoPeer => StrictPeer(peer)
    /\ storage.peerIdentity # NoPeer => StrictPeer(storage.peerIdentity)

\* C18: the key deriveAndSetSharedKey imports after a reload is the session
\* key that was in use before the reload.
C18_SameKeyAfterReload ==
    \A h \in rehydrated : h.was # NoSharedKey => h.key = h.was

\* the envelope a sent or received entry of the history belongs to: a sent
\* entry carries the envelope's id, a received one its timestamp
EnvelopeOf(m) ==
    {e \in sealLog : e.id = IF m.isLocalSender THEN m.id ELSE m.timestamp}

\* C19: while a peer is connected, every sent or received entry of the
\* history comes from a send made under this peer relationship.
C19_HistoryOfThisPeerOnly ==
    (Mounted(mount) /\ peer # NoPeer) =>
        \A i \in 1..Len(messages) :
            messages[i].senderId # SystemSender =>
                \A e \in EnvelopeOf(messages[i]) : e.peerRel = relationship

\* C20: whenever a peer is connected, a session key eventually becomes
\* available (unless the peer is disconnected or the chat unmounted first),
\* whatever the 'shared-aes-key' entry holds.
C20_KeyEventuallyAvailable ==
    (Mounted(mount) /\ peer # NoPeer)
        ~> (sharedKey # NoSharedKey \/ peer = NoPeer \/ mount = 0)

\* there was a logout and no identity has been created since
LoggedOut == identity = NoIdentity /\ nextPair > 1

\* C21: after a confirmed logout, and until a new identity is created,
\* localStorage holds no identity, no peer identity, no message history and
\* no session key ('shared-aes-key').
C21_LogoutErasesSecrets ==
    LoggedOut =>
        /\ storage.userIdentity = NoIdentity
        /\ storage.peerIdentity = NoPeer
        /\ storage.chatMessages = <<>>
        /\ storage.sharedAesKey = NoAesJwk

\* the text in the peer box parses to a payload with the user's own userId
SelfPayload(input) == input.valid /\ input.parsed.userId = identity.userId

\* handleAddPeer on such a payload sets an error and changes neither the
\* peer nor the history nor anything persisted
SelfPayloadRejected ==
    \A input \in PeerInputs(identity) :
        (SelfPayload(input) /\ AddPeer(input)) =>
            /\ error' \in {SelfPeer, InvalidFormat}
            /\ peer' = peer
            /\ messages' = messages
            /\ storage' = storage

\* C22: a connected peer never has the userId of the local identity, and
\* handleAddPeer with a payload carrying the local userId sets an error and
\* leaves the peer, the history and the persisted session key unchanged.
C22_NoSelfPeering ==
    /\ [](peer # NoPeer => peer.userId # identity.userId)
    /\ [][SelfPayloadRejected]_vars

\* C22 witness: the user's own payload was rejected while a session key of
\* an earlier peer is persisted and the history is not empty
C22_Witness ==
    /\ Mounted(mount) /\ error = SelfPeer /\ peer = NoPeer
    /\ storage.sharedAesKey # NoAesJwk /\ messages # <<>>

\* handleSendMessage has nothing to send: blank text, no peer or no session key
Blocked == Trim(message) = <<>> \/ peer = NoPeer \/ sharedKey = NoSharedKey

\* a call of handleSendMessage with nothing to send changes nothing
GatedSendIsNoOp == (Blocked /\ SendStart) => UNCHANGED vars

\* isSending is true while createEncryptedPayload runs for the mounted chat,
\* which has at most one send in progress, and every send in progress was
\* started with text, a peer and a session key
SendingWhileSealing ==
    /\ \A task \in sends :
        /\ Mounted(task.mount) => isSending
        /\ task.text # <<>> /\ task.peer # NoPeer /\ task.sharedKey # NoSharedKey
    /\ \A a, b \in sends : a.mount = b.mount => a = b

\* a step in which handleSendMessage runs to its end for a send in progress
SendFinished(task) == task \in sends /\ task \notin sends' /\ reloads' = reloads

\* the send of the mounted chat finishes: isSending is false again
ResetWhenFinished ==
    \A task \in sends : (SendFinished(task) /\ Mounted(task.mount)) => ~isSending'

\* a step in which the delivery of an envelope appends its result
DeliveryAppended(timer) ==
    /\ timer \in timers /\ timers' = timers \ {timer}
    /\ reloads' = reloads
    /\ messages' # messages

\* the sent message of that envelope was appended before
SentShownFirst ==
    \A timer \in timers :
        DeliveryAppended(timer) =>
            \E e \in sealLog : e.id = timer.payload.id /\ e.shown

\* C23: handleSendMessage with blank text, no peer or no session key changes
\* nothing; otherwise isSending is true while the envelope is being built
\* and false again when the send finishes, whether createEncryptedPayload
\* succeeded or failed; and the sent message of a successful send is
\* appended to the history before the result of its delivery.
C23_SendGating ==
    /\ []SendingWhileSealing
    /\ [][GatedSendIsNoOp /\ ResetWhenFinished /\ SentShownFirst]_vars

\* C23 witness: a send failed and a later one succeeded and was delivered:
\* the history holds the error entry, the sent message and, after it, the
\* received one, and no send is in progress
C23_Witness ==
    /\ Mounted(mount) /\ ~isSending /\ sends = {}
    /\ \E i, j, k \in 1..Len(messages) :
        /\ messages[i].senderId = SystemSender /\ messages[i].isLocalSender
        /\ j < k
        /\ messages[j].isLocalSender /\ messages[j].senderId = identity.userId
        /\ ~messages[k].isLocalSender /\ messages[k].senderId = peer.userId
        /\ messages[k].timestamp = messages[j].id

====
